---- MODULE Spec2Model ----
(***************************************************************************)
(* Model of src/src/journey_cache_loader.py: the context resolver          *)
(* (get_filtered_transitions_with_fallback), the flow probability          *)
(* calculator (get_zone_outflow_with_fallback,                             *)
(* get_zone_inflow_with_fallback) and the cached load functions; and of    *)
(* the pages of src/main.py that call them.                                *)
(*                                                                         *)
(* Conventions.                                                            *)
(*  - A Python Optional is a sequence of length 0 (None) or 1 (a value).   *)
(*  - A DataFrame is a record [columns, rows]: columns says whether the    *)
(*    frame has the schema's columns (pd.DataFrame() has none), rows is    *)
(*    the sequence of its rows in frame order.                             *)
(*  - A float quotient n / d is kept exact as the pair <<n, d>>; <<0, 0>>  *)
(*    is the NaN that 0 / 0 gives.                                         *)
(*  - The Korean labels of the source are written in Latin letters.        *)
(***************************************************************************)
EXTENDS Integers, Sequences, FiniteSets, TLC

VARIABLES transitions_df, call, ret, outflow_sorted,
          cache_file, st_cache, now, page,
          zone_stats, zone_traffic_df,
          attempts, playback, session_state, cumulative

\* transitions_df: the table the page holds; call, ret: the last call of the
\* pass and what it returned; outflow_sorted: the ranking the Flow Prediction
\* page makes of a returned distribution (None before it is made).
\* cache_file: the contents of zone_transitions.parquet (None: no file);
\* st_cache: the entry st.cache_data keeps for load_zone_transitions (None: no
\* entry); now: the clock, in seconds; page: where the pass of the page script
\* stands, whether its load read the file, and the error it showed.
\* zone_stats: the statistics the page holds; zone_traffic_df: the traffic
\* table it derives from them (None before it is made).
\* attempts: the calls of try_filter the last call of the resolver made.
\* playback: the Localization page's session state (loc_playing,
\* loc_current_idx), its widgets and what its last run showed.
\* session_state: st.session_state of the password gate, and whether the last
\* run went on to the dashboard. cumulative: the inputs and the outcome of the
\* cumulative-visitor section of the Traffic Analysis page.
vars == <<transitions_df, call, ret, outflow_sorted,
          cache_file, st_cache, now, page, zone_stats, zone_traffic_df,
          attempts, playback, session_state, cumulative>>

dashboard_vars == <<playback, session_state, cumulative>>

loader_vars == <<cache_file, st_cache, now, page>>

stats_vars == <<zone_stats, zone_traffic_df>>

\* ---------------------------------------------------------------- bounds

\* Longest transitions table drawn.
MaxRows == 2

\* Largest count of a row.
MaxCount == 2

\* Most distinct time indices of a selected range.
MaxFrames == 4

\* Most position rows drawn.
MaxPositions == 3

\* Most password submissions of a session.
MaxSubmissions == 3

\* ------------------------------------------------------------ Python values

None == <<>>

Some(v) == <<v>>

\* `if x` of an Optional[str]: None and the empty string are falsy.
Truthy(opt) == opt # None /\ opt[1] # ""

\* pd.DataFrame(): no columns, no rows.
EmptyDataFrame == [columns |-> FALSE, rows |-> <<>>]

DataFrame(rows) == [columns |-> TRUE, rows |-> rows]

\* An empty dict.
EmptyDict == [k \in {} |-> <<0, 0>>]

Returned(df, probs, notice) ==
    [exc |-> None, df |-> df, probs |-> probs, notice |-> notice]

Raised(e) ==
    [exc |-> Some(e), df |-> EmptyDataFrame, probs |-> EmptyDict, notice |-> None]

\* ------------------------------------------------------------- the resolver

weekday_names ==
    <<"woryoil", "hwayoil", "suyoil", "mogyoil", "geumyoil", "toyoil", "iryoil">>

\* weekday_names[i] of a Python list: negative indexes count from the end,
\* any other index outside the list raises IndexError (here: None).
weekday_name(i) ==
    IF i >= 0 /\ i < Len(weekday_names) THEN Some(weekday_names[i + 1])
    ELSE IF i < 0 /\ i >= -Len(weekday_names)
         THEN Some(weekday_names[Len(weekday_names) + i + 1])
         ELSE None

\* weather_names_kr.get(w, w)
weather_names_kr(w) ==
    CASE w = "Clear" -> "malgeum"
      [] w = "Sunny" -> "malgeum"
      [] w = "Rainy" -> "bi"
      [] w = "Cloudy" -> "heurim"
      [] OTHER -> w

\* time_names_kr.get(t, t)
time_names_kr(t) ==
    CASE t = "morning" -> "ojeon"
      [] t = "afternoon" -> "ohu"
      [] t = "evening" -> "jeonyeok"
      [] OTHER -> t

\* Mutant of try_filter: the time bucket filter is left out.
try_filter_without_time(rows, wd, wt, tb) ==
    SelectSeq(rows, LAMBDA r :
        /\ (wd = None \/ r.weekday = wd[1])
        /\ (wt = None \/ r.weather = wt[1]))

\* The rows of the table that pass the filters that are not None, in table order.
try_filter(rows, wd, wt, tb) ==
    SelectSeq(rows, LAMBDA r :
        /\ (wd = None \/ r.weekday = wd[1])
        /\ (wt = None \/ r.weather = wt[1])
        /\ (tb = None \/ r.time_bucket = tb[1]))

\* Mutant of table_after_try_filter: the filter drops the rows in place.
table_filtered_in_place(df, wd, wt, tb) ==
    IF df = None THEN None ELSE Some(try_filter(df[1], wd, wt, tb))

\* The caller's table after a call: try_filter works on transitions_df.copy()
\* and boolean indexing makes new frames, so the table is as it was.
table_after_try_filter(df, wd, wt, tb) == df

\* df[column].unique()
unique_weather(rows) == {rows[i].weather : i \in DOMAIN rows}

unique_time(rows) == {rows[i].time_bucket : i \in DOMAIN rows}

\* Mutant of weather_preference: a fourth weather is tried.
weather_preference_with_sunny == <<"Cloudy", "Clear", "Rainy", "Sunny">>

\* Mutant of weather_preference: Clear is preferred to Cloudy.
weather_preference_clear_first == <<"Clear", "Cloudy", "Rainy">>

weather_preference == <<"Cloudy", "Clear", "Rainy">>

\* Mutant of time_preference: the night is a candidate too.
time_preference_with_night == <<"afternoon", "morning", "evening", "night">>

\* Mutant of time_preference: the evening is preferred to the afternoon.
time_preference_evening_first == <<"evening", "morning", "afternoon">>

time_preference == <<"afternoon", "morning", "evening">>

\* The candidates of step 2: the whole order when weather is None.
weather_fallback_order(rows, weather) ==
    IF weather # None
    THEN SelectSeq(weather_preference,
                   LAMBDA w : w # weather[1] /\ w \in unique_weather(rows))
    ELSE weather_preference

time_fallback_order(rows, time_bucket) ==
    IF time_bucket # None
    THEN SelectSeq(time_preference,
                   LAMBDA t : t # time_bucket[1] /\ t \in unique_time(rows))
    ELSE time_preference

\* The least index at which a sequence of booleans is TRUE, 0 when there is
\* none: the iteration at which a for loop with a return in it returns, given
\* for each iteration whether its result is non-empty.
FirstIndex(hits) ==
    IF \E i \in DOMAIN hits : hits[i]
    THEN CHOOSE i \in DOMAIN hits : hits[i] /\ \A j \in 1..(i - 1) : ~hits[j]
    ELSE 0

\* Mutant of joint_order: time is the outer loop, weather the inner one.
joint_order_time_outer(ws, ts) ==
    [k \in 1..(Len(ws) * Len(ts)) |->
        <<ws[((k - 1) % Len(ws)) + 1], ts[((k - 1) \div Len(ws)) + 1]>>]

\* The pairs of the nested loops of step 4 in iteration order:
\* weather is the outer loop, time the inner one.
joint_order(ws, ts) ==
    [k \in 1..(Len(ws) * Len(ts)) |->
        <<ws[((k - 1) \div Len(ts)) + 1], ts[((k - 1) % Len(ts)) + 1]>>]

\* The messages (f-strings) as the sequence of their parts.
substitution_msg(original, fallback) ==
    Some(<<"Fallback", original, "deiteoga eopseo", fallback, "deiteoreul sayong">>)

joint_msg(wd_name, original, fallback) ==
    Some(<<"Fallback", wd_name, original, "deiteoga eopseo", fallback,
           "deiteoreul sayong">>)

weekday_only_msg(wd_name) ==
    Some(<<"Fallback", "jeonghwakhan maengnak deiteoga eopseo", wd_name,
           "jeonche deiteoreul sayong">>)

no_data_msg == Some(<<"seontaekhan jogeone haedanghaneun deiteoga eopseumnida">>)

\* f"{a} {b}".strip(): the words of the two labels, an absent one being ''.
original_context(weather, time_bucket) ==
    (IF Truthy(weather) THEN <<weather_names_kr(weather[1])>> ELSE <<>>)
    \o (IF Truthy(time_bucket) THEN <<time_names_kr(time_bucket[1])>> ELSE <<>>)

\* Mutant of weekday_only: the last resort drops the weekday filter too.
weekday_only_all_rows(rows, weekday) ==
    IF weekday # None /\ Len(try_filter(rows, None, None, None)) > 0
    THEN IF weekday_name(weekday[1]) = None
         THEN Raised("IndexError")
         ELSE Returned(DataFrame(try_filter(rows, None, None, None)), EmptyDict,
                       weekday_only_msg(weekday_name(weekday[1])[1]))
    ELSE Returned(EmptyDataFrame, EmptyDict, no_data_msg)

\* Mutant of weekday_only: the last resort is taken without a weekday as well.
weekday_only_unguarded(rows, weekday) ==
    IF Len(try_filter(rows, weekday, None, None)) > 0
    THEN IF weekday # None /\ weekday_name(weekday[1]) = None
         THEN Raised("IndexError")
         ELSE Returned(DataFrame(try_filter(rows, weekday, None, None)), EmptyDict,
                       weekday_only_msg(IF weekday # None
                                        THEN weekday_name(weekday[1])[1]
                                        ELSE "jeonche"))
    ELSE Returned(EmptyDataFrame, EmptyDict, no_data_msg)

\* Mutant of weekday_only: the weekday's name is looked up before the filter
\* is tried.
weekday_only_name_first(rows, weekday) ==
    IF weekday # None
    THEN IF weekday_name(weekday[1]) = None
         THEN Raised("IndexError")
         ELSE IF Len(try_filter(rows, weekday, None, None)) > 0
              THEN Returned(DataFrame(try_filter(rows, weekday, None, None)),
                            EmptyDict,
                            weekday_only_msg(weekday_name(weekday[1])[1]))
              ELSE Returned(EmptyDataFrame, EmptyDict, no_data_msg)
    ELSE Returned(EmptyDataFrame, EmptyDict, no_data_msg)

\* Mutant of weekday_only: the last resort is not tried at all.
weekday_only_skipped(rows, weekday) ==
    Returned(EmptyDataFrame, EmptyDict, no_data_msg)

\* Step 5 and step 6.
weekday_only(rows, weekday) ==
    IF weekday # None /\ Len(try_filter(rows, weekday, None, None)) > 0
    THEN IF weekday_name(weekday[1]) = None
         THEN Raised("IndexError")
         ELSE Returned(DataFrame(try_filter(rows, weekday, None, None)), EmptyDict,
                       weekday_only_msg(weekday_name(weekday[1])[1]))
    ELSE Returned(EmptyDataFrame, EmptyDict, no_data_msg)

\* Mutant of joint_substitution: the joint step is left out.
joint_substitution_skipped(rows, weekday, weather, time_bucket) ==
    weekday_only(rows, weekday)

\* Step 4, then on.
joint_substitution(rows, weekday, weather, time_bucket) ==
    LET ws == weather_fallback_order(rows, weather)
        ts == time_fallback_order(rows, time_bucket)
        pairs == joint_order(ws, ts)
        k == FirstIndex([i \in DOMAIN pairs |->
                Len(try_filter(rows, weekday, Some(pairs[i][1]),
                               Some(pairs[i][2]))) > 0])
    IN  IF k = 0 THEN weekday_only(rows, weekday)
        ELSE IF weekday # None /\ weekday_name(weekday[1]) = None
             THEN Raised("IndexError")
             ELSE Returned(
                    DataFrame(try_filter(rows, weekday, Some(pairs[k][1]),
                                         Some(pairs[k][2]))),
                    EmptyDict,
                    joint_msg(IF weekday # None THEN weekday_name(weekday[1])[1]
                              ELSE "jeonche",
                              original_context(weather, time_bucket),
                              <<weather_names_kr(pairs[k][1]),
                                time_names_kr(pairs[k][2])>>))

\* Step 3, then on.
time_substitution(rows, weekday, weather, time_bucket) ==
    LET ts == time_fallback_order(rows, time_bucket)
        k == FirstIndex([i \in DOMAIN ts |->
                Len(try_filter(rows, weekday, weather, Some(ts[i]))) > 0])
    IN  IF k = 0 THEN joint_substitution(rows, weekday, weather, time_bucket)
        ELSE Returned(DataFrame(try_filter(rows, weekday, weather, Some(ts[k]))),
                      EmptyDict,
                      substitution_msg(
                          IF Truthy(time_bucket) THEN time_names_kr(time_bucket[1])
                          ELSE "jeonche",
                          time_names_kr(ts[k])))

\* Step 2, then on.
weather_substitution(rows, weekday, weather, time_bucket) ==
    LET ws == weather_fallback_order(rows, weather)
        k == FirstIndex([i \in DOMAIN ws |->
                Len(try_filter(rows, weekday, Some(ws[i]), time_bucket)) > 0])
    IN  IF k = 0 THEN time_substitution(rows, weekday, weather, time_bucket)
        ELSE Returned(DataFrame(try_filter(rows, weekday, Some(ws[k]), time_bucket)),
                      EmptyDict,
                      substitution_msg(
                          IF Truthy(weather) THEN weather_names_kr(weather[1])
                          ELSE "jeonche",
                          weather_names_kr(ws[k])))

\* Mutant of get_filtered_transitions_with_fallback: only an absent table
\* returns early, an empty one goes through the steps.
resolver_without_empty_guard(df, weekday, weather, time_bucket) ==
    IF df = None
    THEN Returned(EmptyDataFrame, EmptyDict, None)
    ELSE IF Len(try_filter(df[1], weekday, weather, time_bucket)) > 0
         THEN Returned(DataFrame(try_filter(df[1], weekday, weather, time_bucket)),
                       EmptyDict, None)
         ELSE weather_substitution(df[1], weekday, weather, time_bucket)

\* The resolver: (DataFrame, fallback_message or None).
get_filtered_transitions_with_fallback(df, weekday, weather, time_bucket) ==
    IF df = None \/ Len(df[1]) = 0
    THEN Returned(EmptyDataFrame, EmptyDict, None)
    ELSE IF Len(try_filter(df[1], weekday, weather, time_bucket)) > 0
         THEN Returned(DataFrame(try_filter(df[1], weekday, weather, time_bucket)),
                       EmptyDict, None)
         ELSE weather_substitution(df[1], weekday, weather, time_bucket)

\* The number of calls of try_filter one call of the resolver makes: one for
\* the exact match, then one per candidate of each loop up to the candidate
\* that returns, and one for the weekday-only step when a weekday is given.
try_filter_calls(df, weekday, weather, time_bucket) ==
    IF df = None \/ Len(df[1]) = 0 THEN 0
    ELSE
        LET rows == df[1]
            ws == weather_fallback_order(rows, weather)
            ts == time_fallback_order(rows, time_bucket)
            pairs == joint_order(ws, ts)
            k2 == FirstIndex([i \in DOMAIN ws |->
                     Len(try_filter(rows, weekday, Some(ws[i]), time_bucket)) > 0])
            k3 == FirstIndex([i \in DOMAIN ts |->
                     Len(try_filter(rows, weekday, weather, Some(ts[i]))) > 0])
            k4 == FirstIndex([i \in DOMAIN pairs |->
                     Len(try_filter(rows, weekday, Some(pairs[i][1]),
                                    Some(pairs[i][2]))) > 0])
        IN  IF Len(try_filter(rows, weekday, weather, time_bucket)) > 0 THEN 1
            ELSE IF k2 > 0 THEN 1 + k2
            ELSE IF k3 > 0 THEN 1 + Len(ws) + k3
            ELSE IF k4 > 0 THEN 1 + Len(ws) + Len(ts) + k4
            ELSE 1 + Len(ws) + Len(ts) + Len(pairs)
                 + (IF weekday # None THEN 1 ELSE 0)

\* ------------------------------------------------- the flow probabilities

\* df['count'].sum()
RECURSIVE count_sum(_)
count_sum(rows) ==
    IF rows = <<>> THEN 0 ELSE Head(rows).count + count_sum(Tail(rows))

\* The rows whose from_zone is the zone, and those whose to_zone is.
from_rows(rows, zone) == SelectSeq(rows, LAMBDA r : r.from_zone = zone)

to_rows(rows, zone) == SelectSeq(rows, LAMBDA r : r.to_zone = zone)

\* Mutant of outflow_probs: the rows are counted, their counts are not summed.
outflow_probs_row_count(zone_outflow) ==
    [z \in {zone_outflow[i].to_zone : i \in DOMAIN zone_outflow} |->
        <<Len(to_rows(zone_outflow, z)), Len(zone_outflow)>>]

\* zone_outflow.groupby('to_zone')['count'].sum() / total, as a dict.
outflow_probs(zone_outflow) ==
    [z \in {zone_outflow[i].to_zone : i \in DOMAIN zone_outflow} |->
        <<count_sum(to_rows(zone_outflow, z)), count_sum(zone_outflow)>>]

\* Mutant of inflow_probs: grouped by to_zone, as the outflow is.
inflow_probs_by_to_zone(zone_inflow) ==
    [z \in {zone_inflow[i].to_zone : i \in DOMAIN zone_inflow} |->
        <<count_sum(to_rows(zone_inflow, z)), count_sum(zone_inflow)>>]

\* zone_inflow.groupby('from_zone')['count'].sum() / total, as a dict.
inflow_probs(zone_inflow) ==
    [z \in {zone_inflow[i].from_zone : i \in DOMAIN zone_inflow} |->
        <<count_sum(from_rows(zone_inflow, z)), count_sum(zone_inflow)>>]

\* What follows the resolver's return in get_zone_outflow_with_fallback:
\* filtered['from_zone'] raises KeyError on a frame without columns.
outflow_of(filtered, zone) ==
    IF filtered.exc # None THEN filtered
    ELSE IF ~filtered.df.columns THEN Raised("KeyError")
    ELSE IF Len(from_rows(filtered.df.rows, zone)) = 0
         THEN Returned(EmptyDataFrame, EmptyDict, filtered.notice)
         ELSE Returned(EmptyDataFrame,
                       outflow_probs(from_rows(filtered.df.rows, zone)),
                       filtered.notice)

inflow_of(filtered, zone) ==
    IF filtered.exc # None THEN filtered
    ELSE IF ~filtered.df.columns THEN Raised("KeyError")
    ELSE IF Len(to_rows(filtered.df.rows, zone)) = 0
         THEN Returned(EmptyDataFrame, EmptyDict, filtered.notice)
         ELSE Returned(EmptyDataFrame,
                       inflow_probs(to_rows(filtered.df.rows, zone)),
                       filtered.notice)

get_zone_outflow_with_fallback(zone, df, weekday, weather, time_bucket) ==
    outflow_of(get_filtered_transitions_with_fallback(df, weekday, weather,
                                                      time_bucket), zone)

get_zone_inflow_with_fallback(zone, df, weekday, weather, time_bucket) ==
    inflow_of(get_filtered_transitions_with_fallback(df, weekday, weather,
                                                     time_bucket), zone)

\* ------------------------------------------------------ the plain variants

\* Mutant of get_filtered_transitions: the weather is not filtered.
get_filtered_transitions_without_weather(df, weekday, weather, time_bucket) ==
    IF df = None \/ Len(df[1]) = 0
    THEN Returned(EmptyDataFrame, EmptyDict, None)
    ELSE Returned(DataFrame(SelectSeq(df[1], LAMBDA r :
                      /\ (weekday = None \/ r.weekday = weekday[1])
                      /\ (time_bucket = None \/ r.time_bucket = time_bucket[1]))),
                  EmptyDict, None)

\* get_filtered_transitions: pd.DataFrame() for an absent or empty table, else
\* the rows that pass the three filters; there is no notice.
get_filtered_transitions(df, weekday, weather, time_bucket) ==
    IF df = None \/ Len(df[1]) = 0
    THEN Returned(EmptyDataFrame, EmptyDict, None)
    ELSE Returned(DataFrame(SelectSeq(df[1], LAMBDA r :
                      /\ (weekday = None \/ r.weekday = weekday[1])
                      /\ (weather = None \/ r.weather = weather[1])
                      /\ (time_bucket = None \/ r.time_bucket = time_bucket[1]))),
                  EmptyDict, None)

\* get_zone_outflow_probabilities: a dict.
get_zone_outflow_probabilities(zone, df, weekday, weather, time_bucket) ==
    LET filtered == get_filtered_transitions(df, weekday, weather, time_bucket)
    IN  IF ~filtered.df.columns THEN Raised("KeyError")
        ELSE IF Len(from_rows(filtered.df.rows, zone)) = 0
             THEN Returned(EmptyDataFrame, EmptyDict, None)
             ELSE Returned(EmptyDataFrame,
                           outflow_probs(from_rows(filtered.df.rows, zone)), None)

\* get_zone_inflow_sources: a dict.
get_zone_inflow_sources(zone, df, weekday, weather, time_bucket) ==
    LET filtered == get_filtered_transitions(df, weekday, weather, time_bucket)
    IN  IF ~filtered.df.columns THEN Raised("KeyError")
        ELSE IF Len(to_rows(filtered.df.rows, zone)) = 0
             THEN Returned(EmptyDataFrame, EmptyDict, None)
             ELSE Returned(EmptyDataFrame,
                           inflow_probs(to_rows(filtered.df.rows, zone)), None)

\* ------------------------------------------------------------- the ranking

\* The zone names in ascending string order.
zone_names_sorted == <<"A", "B">>

\* The zone's rows of the slice, and the column they are grouped by.
zone_rows(fn, rows, zone) ==
    IF fn = "outflow" THEN from_rows(rows, zone) ELSE to_rows(rows, zone)

group_column(fn, rows) ==
    [i \in DOMAIN rows |->
        IF fn = "outflow" THEN rows[i].to_zone ELSE rows[i].from_zone]

\* The values of a sequence in the order of their first occurrence.
RECURSIVE first_occurrences(_)
first_occurrences(keys) ==
    IF keys = <<>> THEN <<>>
    ELSE LET front == first_occurrences(SubSeq(keys, 1, Len(keys) - 1))
             last == keys[Len(keys)]
         IN  IF \E i \in DOMAIN front : front[i] = last THEN front
             ELSE Append(front, last)

\* Mutant of groupby_keys: the groups keep the order of their first rows
\* (groupby(..., sort=False)).
groupby_keys_unsorted(keys) == first_occurrences(keys)

\* The group keys of groupby(column): sorted ascending (sort=True, the default).
groupby_keys(keys) ==
    SelectSeq(zone_names_sorted, LAMBDA z : \E i \in DOMAIN keys : keys[i] = z)

\* probs.to_dict().items(): the pairs (zone, probability) in the order of the
\* group keys.
to_dict_items(probs, keys) ==
    [i \in DOMAIN groupby_keys(keys) |->
        <<groupby_keys(keys)[i], probs[groupby_keys(keys)[i]]>>]

\* -p < -q for the floats p and q; FALSE when either is NaN.
neg_less(p, q) == p[2] > 0 /\ q[2] > 0 /\ p[1] * q[2] > q[1] * p[2]

\* A sorted list with one more item put in: behind every item that does not
\* sort after it.
insert_sorted(items, x) ==
    LET k == FirstIndex([i \in DOMAIN items |-> neg_less(x[2], items[i][2])])
    IN  IF k = 0 THEN Append(items, x)
        ELSE SubSeq(items, 1, k - 1) \o <<x>> \o SubSeq(items, k, Len(items))

\* sorted(items, key=lambda x: -x[1]): stable, descending probability.
RECURSIVE sorted_by_probability(_)
sorted_by_probability(items) ==
    IF items = <<>> THEN <<>>
    ELSE insert_sorted(sorted_by_probability(SubSeq(items, 1, Len(items) - 1)),
                       items[Len(items)])

\* ------------------------------------------------------------ input domains

Row(f, t, wd, wt, tb, c) ==
    [from_zone |-> f, to_zone |-> t, weekday |-> wd, weather |-> wt,
     time_bucket |-> tb, count |-> c]

\* Sequences over S of length at most n.
SeqUpTo(S, n) == UNION {[1..k -> S] : k \in 0..n}

\* Weekdays present in the tables; requests also ask for none at all.
Weekdays == {2, 5}

\* Weathers and time buckets: the preference lists and one value outside them.
Weathers == {"Cloudy", "Clear", "Rainy", "Snowy"}

TimeBuckets == {"afternoon", "morning", "evening", "night"}

Opt(S) == {None} \cup {Some(v) : v \in S}

\* The time buckets of the rows drawn: morning is left out, so a request for
\* the morning is served by a fallback step or not at all.
RowTimeBuckets == {"afternoon", "evening", "night"}

\* Resolver tables: every context of these, one zone pair.
ContextRows ==
    {Row("A", "B", wd, wt, tb, 1) : wd \in Weekdays, wt \in Weathers,
                                     tb \in RowTimeBuckets}

ContextTables == {None} \cup {Some(t) : t \in SeqUpTo(ContextRows, MaxRows)}

\* Weekdays no row has: integers outside 0..6, above and below, one of them
\* below the reach of a negative list index.
MalformedWeekdays == {7, -1, -8}

\* Tables of listed values only: every weather and time bucket of the
\* preference lists, one zone pair.
ListedWeathers == {"Cloudy", "Clear", "Rainy"}

ListedTimeBuckets == {"afternoon", "morning", "evening"}

ListedRows ==
    {Row("A", "B", wd, wt, tb, 1) : wd \in Weekdays, wt \in ListedWeathers,
                                     tb \in ListedTimeBuckets}

ListedTables == {Some(t) : t \in SeqUpTo(ListedRows, MaxRows)}

\* Flow tables: every zone pair and count, two contexts of one weekday.
Zones == {"A", "B"}

FlowWeekdays == {5}

FlowWeathers == {"Cloudy", "Rainy"}

FlowTimeBuckets == {"evening"}

FlowRows ==
    {Row(f, t, wd, wt, tb, c) : f \in Zones, t \in Zones, wd \in FlowWeekdays,
                                wt \in FlowWeathers, tb \in FlowTimeBuckets,
                                c \in 0..MaxCount}

FlowTables == {None} \cup {Some(t) : t \in SeqUpTo(FlowRows, MaxRows)}

\* Requests on flow tables: also a weekday without rows; the weekday and the
\* time bucket are always given, as the Flow Prediction page gives them.
FlowRequestWeekdays == {Some(2), Some(5)}

NoCall == [fn |-> "none", zone |-> "", weekday |-> None, weather |-> None,
           time_bucket |-> None]

NoRet == Returned(EmptyDataFrame, EmptyDict, None)

\* ------------------------------------------------------------------ actions

\* A call of get_filtered_transitions_with_fallback on the loaded table, by a
\* pass of the page script that has called nothing yet.
Resolve ==
    \E wd \in Opt(Weekdays), wt \in Opt(Weathers), tb \in Opt(TimeBuckets) :
        /\ call = NoCall
        /\ call' = [fn |-> "resolve", zone |-> "", weekday |-> wd, weather |-> wt,
                    time_bucket |-> tb]
        /\ ret' = get_filtered_transitions_with_fallback(transitions_df, wd, wt, tb)
        /\ transitions_df' = table_after_try_filter(transitions_df, wd, wt, tb)
        /\ attempts' = try_filter_calls(transitions_df, wd, wt, tb)
        /\ UNCHANGED <<dashboard_vars, outflow_sorted, loader_vars, stats_vars>>

\* A call of get_filtered_transitions_with_fallback by a caller that passes a
\* weekday outside 0..6 (the function does not validate its arguments).
ResolveMalformed ==
    \E wd \in MalformedWeekdays, wt \in Opt(Weathers), tb \in Opt(TimeBuckets) :
        /\ call = NoCall
        /\ call' = [fn |-> "resolve", zone |-> "", weekday |-> Some(wd),
                    weather |-> wt, time_bucket |-> tb]
        /\ ret' = get_filtered_transitions_with_fallback(transitions_df, Some(wd), wt, tb)
        /\ transitions_df' = table_after_try_filter(transitions_df, Some(wd), wt, tb)
        /\ attempts' = try_filter_calls(transitions_df, Some(wd), wt, tb)
        /\ UNCHANGED <<dashboard_vars, outflow_sorted, loader_vars, stats_vars>>

\* A call of get_filtered_transitions_with_fallback with a request made of the
\* values the pages' select boxes offer.
ResolveListed ==
    \E wd \in Opt(Weekdays), wt \in Opt(ListedWeathers), tb \in Opt(ListedTimeBuckets) :
        /\ call = NoCall
        /\ call' = [fn |-> "resolve", zone |-> "", weekday |-> wd, weather |-> wt,
                    time_bucket |-> tb]
        /\ ret' = get_filtered_transitions_with_fallback(transitions_df, wd, wt, tb)
        /\ transitions_df' = table_after_try_filter(transitions_df, wd, wt, tb)
        /\ attempts' = try_filter_calls(transitions_df, wd, wt, tb)
        /\ UNCHANGED <<dashboard_vars, outflow_sorted, loader_vars, stats_vars>>

\* Calls of the plain variants on the loaded table.
PlainFilter ==
    \E wd \in FlowRequestWeekdays, wt \in Opt(FlowWeathers),
       tb \in {Some(t) : t \in FlowTimeBuckets} :
        /\ call = NoCall
        /\ call' = [fn |-> "plain_filter", zone |-> "", weekday |-> wd,
                    weather |-> wt, time_bucket |-> tb]
        /\ ret' = get_filtered_transitions(transitions_df, wd, wt, tb)
        /\ UNCHANGED <<attempts, dashboard_vars, transitions_df, outflow_sorted,
                       loader_vars, stats_vars>>

PlainOutflow ==
    \E zone \in Zones, wd \in FlowRequestWeekdays, wt \in Opt(FlowWeathers),
       tb \in {Some(t) : t \in FlowTimeBuckets} :
        /\ call = NoCall
        /\ call' = [fn |-> "plain_outflow", zone |-> zone, weekday |-> wd,
                    weather |-> wt, time_bucket |-> tb]
        /\ ret' = get_zone_outflow_probabilities(zone, transitions_df, wd, wt, tb)
        /\ UNCHANGED <<attempts, dashboard_vars, transitions_df, outflow_sorted,
                       loader_vars, stats_vars>>

PlainInflow ==
    \E zone \in Zones, wd \in FlowRequestWeekdays, wt \in Opt(FlowWeathers),
       tb \in {Some(t) : t \in FlowTimeBuckets} :
        /\ call = NoCall
        /\ call' = [fn |-> "plain_inflow", zone |-> zone, weekday |-> wd,
                    weather |-> wt, time_bucket |-> tb]
        /\ ret' = get_zone_inflow_sources(zone, transitions_df, wd, wt, tb)
        /\ UNCHANGED <<attempts, dashboard_vars, transitions_df, outflow_sorted,
                       loader_vars, stats_vars>>

\* A call of get_zone_outflow_with_fallback on the loaded table.
Outflow ==
    \E zone \in Zones, wd \in FlowRequestWeekdays, wt \in Opt(FlowWeathers),
       tb \in {Some(t) : t \in FlowTimeBuckets} :
        /\ call = NoCall
        /\ call' = [fn |-> "outflow", zone |-> zone, weekday |-> wd, weather |-> wt,
                    time_bucket |-> tb]
        /\ ret' = get_zone_outflow_with_fallback(zone, transitions_df, wd, wt, tb)
        /\ transitions_df' = table_after_try_filter(transitions_df, wd, wt, tb)
        /\ attempts' = try_filter_calls(transitions_df, wd, wt, tb)
        /\ UNCHANGED <<dashboard_vars, outflow_sorted, loader_vars, stats_vars>>

\* A call of get_zone_inflow_with_fallback on the loaded table.
Inflow ==
    \E zone \in Zones, wd \in FlowRequestWeekdays, wt \in Opt(FlowWeathers),
       tb \in {Some(t) : t \in FlowTimeBuckets} :
        /\ call = NoCall
        /\ call' = [fn |-> "inflow", zone |-> zone, weekday |-> wd, weather |-> wt,
                    time_bucket |-> tb]
        /\ ret' = get_zone_inflow_with_fallback(zone, transitions_df, wd, wt, tb)
        /\ transitions_df' = table_after_try_filter(transitions_df, wd, wt, tb)
        /\ attempts' = try_filter_calls(transitions_df, wd, wt, tb)
        /\ UNCHANGED <<dashboard_vars, outflow_sorted, loader_vars, stats_vars>>

\* The pass ends; the next interaction reruns the script from the top, its
\* locals gone, on the same cached table.
Rerun ==
    /\ call # NoCall
    /\ call' = NoCall
    /\ ret' = NoRet
    /\ outflow_sorted' = None
    /\ attempts' = 0
    /\ UNCHANGED <<dashboard_vars, transitions_df, loader_vars, stats_vars>>

\* The Flow Prediction page ranks a non-empty distribution it was returned
\* (the else branch of `if not outflow_probs`).
Rank ==
    /\ call.fn \in {"outflow", "inflow"}
    /\ ret.exc = None
    /\ ret.probs # EmptyDict
    /\ outflow_sorted = None
    /\ outflow_sorted' =
          Some(sorted_by_probability(to_dict_items(ret.probs,
              group_column(call.fn, zone_rows(call.fn,
                  get_filtered_transitions_with_fallback(transitions_df,
                      call.weekday, call.weather, call.time_bucket).df.rows,
                  call.zone)))))
    /\ UNCHANGED <<attempts, dashboard_vars, transitions_df, call, ret, loader_vars, stats_vars>>

\* --------------------------------------------------------- the cached loads

\* @st.cache_data(ttl=3600): the seconds an entry lives.
ttl == 3600

\* The clock advances ttl / TicksPerTtl seconds at a time, MaxTicks times.
TicksPerTtl == 3

MaxTicks == 7

ClockStep == ttl \div TicksPerTtl

\* cache_file.exists()
exists(file) == file # None

\* pd.read_parquet(cache_file): the table the file holds.
read_parquet(file) == Some(file[1])

\* The body of load_zone_transitions.
load_zone_transitions(file) ==
    IF ~exists(file) THEN None ELSE read_parquet(file)

\* Mutant of expires: an entry lives two ttl.
expires_late(entry) == entry.stored_at + 2 * ttl

\* The time at which st.cache_data lets an entry go.
expires(entry) == entry.stored_at + ttl

\* Whether st.cache_data answers a call at time t from its entry, as the set
\* of the possible answers: at the very second of expiry the answer depends
\* on the version of the library's TTL cache (expired when t >= expiry in
\* some, when t > expiry in others).
cache_hit(entry, t) ==
    IF entry = None THEN {FALSE}
    ELSE IF t < expires(entry[1]) THEN {TRUE}
    ELSE IF t = expires(entry[1]) THEN {TRUE, FALSE}
    ELSE {FALSE}

\* Mutant of cache_found: the page goes on without a table.
cache_found_unchecked(df) == TRUE

\* The negation of `if transitions_df is None`.
cache_found(df) == df # None

\* The pages that load the transitions table, and the script each error names.
PageNames == {"analysis", "prediction"}

cache_not_found(name) ==
    Some(<<"Cache not found",
           IF name = "analysis" THEN "precompute_journey_cache.py"
           ELSE "src/precompute_journey_cache.py">>)

StartOfPass == [pc |-> "start", name |-> "", read |-> FALSE, error |-> None]

\* The functions are called on a table held from a load at time 0.
OutsidePage ==
    /\ cache_file = transitions_df
    /\ st_cache = Some([value |-> transitions_df, stored_at |-> 0])
    /\ now = 0
    /\ page = [pc |-> "loaded", name |-> "", read |-> TRUE, error |-> None]

\* The files the loader meets: none, and two tables of one row.
LoaderTables ==
    {<<Row("A", "B", 5, "Rainy", "evening", 1)>>,
     <<Row("A", "A", 5, "Cloudy", "evening", 2)>>}

CacheFiles == {None} \cup {Some(t) : t \in LoaderTables}

\* A page starts a pass: transitions_df = load_zone_transitions(), answered
\* from the entry of st.cache_data or by running the body and storing what it
\* returns (None too); the caller gets a copy of the stored value.
Load ==
    \E name \in PageNames, hit \in cache_hit(st_cache, now) :
        /\ page.pc = "start"
        /\ st_cache' = IF hit THEN st_cache
                       ELSE Some([value |-> load_zone_transitions(cache_file),
                                  stored_at |-> now])
        /\ transitions_df' = IF hit THEN st_cache[1].value
                             ELSE load_zone_transitions(cache_file)
        /\ page' = [pc |-> "loaded", name |-> name, read |-> ~hit, error |-> None]
        /\ UNCHANGED <<attempts, dashboard_vars, call, ret, outflow_sorted, cache_file, now, stats_vars>>

\* if transitions_df is None: st.error(...); return
CacheNotFound ==
    /\ page.pc = "loaded"
    /\ ~cache_found(transitions_df)
    /\ page' = [page EXCEPT !.pc = "returned", !.error = cache_not_found(page.name)]
    /\ UNCHANGED <<attempts, dashboard_vars, transitions_df, call, ret, outflow_sorted, cache_file,
                   st_cache, now, stats_vars>>

\* The Spatial Flow page goes on to its call of the resolver.
PageResolve ==
    \E wt \in {None, Some("Rainy")} :
        /\ page.pc = "loaded"
        /\ page.name = "analysis"
        /\ cache_found(transitions_df)
        /\ call' = [fn |-> "resolve", zone |-> "", weekday |-> None,
                    weather |-> wt, time_bucket |-> None]
        /\ ret' = get_filtered_transitions_with_fallback(transitions_df, None, wt, None)
        /\ transitions_df' = table_after_try_filter(transitions_df, None, wt, None)
        /\ page' = [page EXCEPT !.pc = "called"]
        /\ attempts' = try_filter_calls(transitions_df, None, wt, None)
        /\ UNCHANGED <<dashboard_vars, outflow_sorted, cache_file, st_cache, now, stats_vars>>

\* The Flow Prediction page goes on to its call of the outflow function.
PageOutflow ==
    \E zone \in Zones :
        /\ page.pc = "loaded"
        /\ page.name = "prediction"
        /\ cache_found(transitions_df)
        /\ call' = [fn |-> "outflow", zone |-> zone, weekday |-> Some(5),
                    weather |-> Some("Rainy"), time_bucket |-> Some("evening")]
        /\ ret' = get_zone_outflow_with_fallback(zone, transitions_df, Some(5),
                                                 Some("Rainy"), Some("evening"))
        /\ transitions_df' = table_after_try_filter(transitions_df, Some(5),
                                                    Some("Rainy"), Some("evening"))
        /\ page' = [page EXCEPT !.pc = "called"]
        /\ attempts' = try_filter_calls(transitions_df, Some(5), Some("Rainy"), Some("evening"))
        /\ UNCHANGED <<dashboard_vars, outflow_sorted, cache_file, st_cache, now, stats_vars>>

\* The pass is over; the next one starts with no table in hand.
PageRerun ==
    /\ page.pc \in {"called", "returned"}
    /\ page' = StartOfPass
    /\ transitions_df' = None
    /\ call' = NoCall
    /\ ret' = NoRet
    /\ attempts' = 0
    /\ UNCHANGED <<dashboard_vars, outflow_sorted, cache_file, st_cache, now, stats_vars>>

\* Time passes.
Tick ==
    /\ now + ClockStep <= MaxTicks * ClockStep
    /\ now' = now + ClockStep
    /\ UNCHANGED <<attempts, dashboard_vars, transitions_df, call, ret, outflow_sorted, cache_file,
                   st_cache, page, stats_vars>>

\* The backing file is created, replaced or removed.
FileChange ==
    \E file \in CacheFiles \ {cache_file} :
        /\ cache_file' = file
        /\ UNCHANGED <<attempts, dashboard_vars, transitions_df, call, ret, outflow_sorted, st_cache, now,
                       page, stats_vars>>

\* ------------------------------------------------------- the traffic table

\* zone_traffic_df = ....head(15)
head_rows == 15

\* Most zones of the statistics drawn.
MaxZones == 17

\* stats.get(key, 0) of a stats dict whose key may be missing (None).
stats_get(field) == IF field = None THEN 0 ELSE field[1]

\* Mutant of traffic_row: the balance is inflow minus outflow.
traffic_row_balance_reversed(item) ==
    [Zone |-> item[1],
     Outflow |-> stats_get(item[2].total_outflow),
     Inflow |-> stats_get(item[2].total_inflow),
     Total |-> stats_get(item[2].total_outflow) + stats_get(item[2].total_inflow),
     Balance |-> stats_get(item[2].total_inflow) - stats_get(item[2].total_outflow)]

\* The dict appended for one item of zone_stats.items().
traffic_row(item) ==
    [Zone |-> item[1],
     Outflow |-> stats_get(item[2].total_outflow),
     Inflow |-> stats_get(item[2].total_inflow),
     Total |-> stats_get(item[2].total_outflow) + stats_get(item[2].total_inflow),
     Balance |-> stats_get(item[2].total_outflow) - stats_get(item[2].total_inflow)]

\* The list zone_traffic, in the order of the dict.
zone_traffic(items) == [k \in DOMAIN items |-> traffic_row(items[k])]

\* sort_values('Total', ascending=False): the orders of the rows at the
\* indexes S in which no Total is followed by a larger one. The default sort
\* is not stable, so rows of equal Total may come out in any order.
RECURSIVE sort_values(_, _)
sort_values(rows, S) ==
    IF S = {} THEN {<<>>}
    ELSE UNION {{<<rows[i]>> \o rest : rest \in sort_values(rows, S \ {i})} :
                    i \in {j \in S : \A k \in S : rows[j].Total >= rows[k].Total}}

\* df.head(n)
head(rows, n) == SubSeq(rows, 1, IF Len(rows) < n THEN Len(rows) ELSE n)

\* Statistics drawn: zones 1..n in dict order (the number stands for the
\* zone's name); the outflow grows with the zone, in runs of w equal values;
\* every inflow is 1; the first zone may lack total_outflow and the last zone
\* may lack total_inflow.
StatsItems(n, w, no_out, no_in) ==
    [i \in 1..n |->
        <<i, [total_outflow |-> IF no_out /\ i = 1 THEN None
                                ELSE Some((i + w - 1) \div w),
              total_inflow |-> IF no_in /\ i = n THEN None ELSE Some(1)]>>]

StatsTables ==
    {None} \cup {Some(StatsItems(n, w, no_out, no_in)) :
                    n \in 0..MaxZones, w \in 1..2, no_out \in BOOLEAN,
                    no_in \in BOOLEAN}

NoStatistics == zone_stats = None /\ zone_traffic_df = None

\* `if zone_stats:` and the table built under it.
Aggregate ==
    /\ zone_traffic_df = None
    /\ zone_stats # None
    /\ zone_stats[1] # <<>>
    /\ \E sorted \in sort_values(zone_traffic(zone_stats[1]), DOMAIN zone_stats[1]) :
          zone_traffic_df' = Some(head(sorted, head_rows))
    /\ UNCHANGED <<attempts, dashboard_vars, transitions_df, call, ret, outflow_sorted, loader_vars, zone_stats>>

\* The page is run again.
RerunTraffic ==
    /\ zone_traffic_df # None
    /\ zone_traffic_df' = None
    /\ UNCHANGED <<attempts, dashboard_vars, transitions_df, call, ret, outflow_sorted, loader_vars, zone_stats>>

\* The journey pages have not run.
JourneyIdle ==
    /\ transitions_df = None
    /\ call = NoCall
    /\ ret = NoRet
    /\ outflow_sorted = None
    /\ OutsidePage
    /\ NoStatistics
    /\ attempts = 0

journey_vars == <<transitions_df, call, ret, outflow_sorted, attempts,
                  loader_vars, stats_vars>>

\* ------------------------------------------------------------ the playback

\* The options of the speed select_slider, and its default.
Speeds == {"0.5x", "1x", "2x", "4x", "8x", "16x"}

default_speed == "2x"

\* render_localization: frame_skip = int(speed_map[speed]); int(0.5) is 0.
loc_frame_skip(speed) ==
    CASE speed = "0.5x" -> 0
      [] speed = "1x"   -> 1
      [] speed = "2x"   -> 2
      [] speed = "4x"   -> 4
      [] speed = "8x"   -> 8
      [] speed = "16x"  -> 16

\* render_heatmap_video: frame_skip = speed_map[speed].
hm_frame_skip(speed) ==
    CASE speed = "0.5x" -> 1
      [] speed = "1x"   -> 2
      [] speed = "2x"   -> 4
      [] speed = "4x"   -> 8
      [] speed = "8x"   -> 16
      [] speed = "16x"  -> 32

frame_skip(view, speed) ==
    IF view = "loc" THEN loc_frame_skip(speed) ELSE hm_frame_skip(speed)

\* st.progress(value) of a float: raises outside [0.0, 1.0].
st_progress(progress) ==
    IF 0 <= progress[1] /\ progress[1] <= progress[2]
    THEN None ELSE Some("StreamlitAPIException")

Max(a, b) == IF a >= b THEN a ELSE b

Min(a, b) == IF a <= b THEN a ELSE b

\* The buttons of a playback page; at most one is True in a run.
Buttons == {"play", "pause", "reset"}

\* One run of render_localization (view "loc") or render_heatmap_video (view
\* "hm") from the range check on: p holds the widgets' values of this run and
\* st.session_state, button the button pressed ("" for none). The range
\* check returns before the controls are drawn, the empty range after the
\* buttons are applied; st.rerun() is reached only if nothing raised.
render_playback(p, button) ==
    IF p.inverted
    THEN [p EXCEPT !.opened = TRUE, !.controls = FALSE, !.frame = None,
                   !.progress = None, !.exc = None, !.rerun = FALSE]
    ELSE
    LET playing1 == IF button = "play" THEN TRUE
                    ELSE IF button \in {"pause", "reset"} THEN FALSE
                    ELSE p.playing
        idx1 == IF button = "reset" THEN 0 ELSE p.current_idx
        q == [p EXCEPT !.opened = TRUE, !.controls = TRUE, !.present = TRUE,
                       !.playing = playing1, !.current_idx = idx1]
    IN  IF p.frames = 0
        THEN [q EXCEPT !.frame = None, !.progress = None, !.exc = None,
                       !.rerun = FALSE]
        ELSE
        LET idx2 == IF playing1 THEN idx1 + frame_skip(p.view, p.speed) ELSE idx1
            over == playing1 /\ idx2 >= p.frames
            idx3 == IF over THEN p.frames - 1 ELSE idx2
            playing3 == playing1 /\ ~over
            progress == <<idx3, Max(p.frames - 1, 1)>>
            exc == st_progress(progress)
        IN  [q EXCEPT !.playing = playing3, !.current_idx = idx3,
                      !.frame = Some(Min(idx3, p.frames - 1)),
                      !.progress = IF exc = None THEN Some(progress) ELSE None,
                      !.exc = exc,
                      !.rerun = (exc = None /\ playing3)]

\* The page before its first run: no key in st.session_state, the widgets at
\* their defaults; frames is the number of distinct time indices the data has
\* in the selected range (0: none).
NewPlayback(view, frames) ==
    [view |-> view, opened |-> FALSE, controls |-> FALSE, present |-> FALSE,
     playing |-> FALSE, current_idx |-> 0, speed |-> default_speed,
     inverted |-> FALSE, frames |-> frames, frame |-> None, progress |-> None,
     exc |-> None, rerun |-> FALSE, last |-> ""]

\* The page is opened, or run again by a widget that is not one of its own.
Open ==
    /\ playback' = [render_playback(playback, "") EXCEPT !.last = "open"]
    /\ UNCHANGED <<journey_vars, session_state, cumulative>>

\* Play, Pause or Reset is pressed on a page that drew them.
Press ==
    \E button \in Buttons :
        /\ playback.controls
        /\ playback' = [render_playback(playback, button) EXCEPT !.last = button]
        /\ UNCHANGED <<journey_vars, session_state, cumulative>>

\* The speed slider is moved.
SetSpeed ==
    \E speed \in Speeds :
        /\ playback.controls
        /\ speed # playback.speed
        /\ playback' = [render_playback([playback EXCEPT !.speed = speed], "")
                           EXCEPT !.last = "speed"]
        /\ UNCHANGED <<journey_vars, session_state, cumulative>>

\* A time slider is moved: the range is inverted (start >= end) or holds
\* frames distinct time indices.
SetRange ==
    \E inverted \in BOOLEAN, frames \in 0 .. MaxFrames :
        /\ playback.opened
        /\ inverted => frames = 0
        /\ <<inverted, frames>> # <<playback.inverted, playback.frames>>
        /\ playback' = [render_playback([playback EXCEPT !.inverted = inverted,
                                                        !.frames = frames], "")
                           EXCEPT !.last = "range"]
        /\ UNCHANGED <<journey_vars, session_state, cumulative>>

\* `if playing: time.sleep(0.1); st.rerun()`: the run st.rerun() starts.
AutoRerun ==
    /\ playback.rerun
    /\ playback' = [render_playback(playback, "") EXCEPT !.last = "auto"]
    /\ UNCHANGED <<journey_vars, session_state, cumulative>>

\* ------------------------------------------------- the cumulative visitors

\* The options of the dwell-time radio.
dwell_times == {1, 2, 3, 4, 5}

\* positions_df[positions_df['zone'].isin(selected_zones_cum)]
zone_positions(positions_df, selected_zones_cum) ==
    SelectSeq(positions_df, LAMBDA r : r.zone \in selected_zones_cum)

column(rows, name) == {rows[i][name] : i \in DOMAIN rows}

\* groupby('mac_address').agg({'time_index': ['min', 'max', 'count']})
first_seen(rows, mac) ==
    LET ts == {rows[i].time_index : i \in {j \in DOMAIN rows : rows[j].mac_address = mac}}
    IN  CHOOSE t \in ts : \A u \in ts : t <= u

last_seen(rows, mac) ==
    LET ts == {rows[i].time_index : i \in {j \in DOMAIN rows : rows[j].mac_address = mac}}
    IN  CHOOSE t \in ts : \A u \in ts : t >= u

\* dwell_minutes = (last_seen - first_seen) * 10 / 60, as a quotient.
dwell_minutes(rows, mac) == <<(last_seen(rows, mac) - first_seen(rows, mac)) * 10, 60>>

\* mac_dwell[mac_dwell['dwell_minutes'] >= dwell_time]['mac_address'].unique()
qualified_macs(rows, dwell_time) ==
    {mac \in column(rows, "mac_address") :
        dwell_minutes(rows, mac)[1] >= dwell_time * dwell_minutes(rows, mac)[2]}

RECURSIVE sorted_unique(_)
\* sorted(series.unique())
sorted_unique(S) ==
    IF S = {} THEN <<>>
    ELSE LET least == CHOOSE t \in S : \A u \in S : t <= u
         IN  <<least>> \o sorted_unique(S \ {least})

\* The loop over the time indices: at each, the qualified devices seen so far.
cumulative_data(rows, qualified) ==
    LET times == sorted_unique(column(rows, "time_index"))
    IN  [k \in DOMAIN times |->
            [time_index |-> times[k],
             cumulative_visitors |->
                 Cardinality({rows[i].mac_address :
                                 i \in {j \in DOMAIN rows :
                                           rows[j].time_index <= times[k]}}
                             \cap qualified)]]

\* What the section showed: a warning, the series of the chart, the 'Total
\* Qualified Visitors' metric, or the exception that ended the run.
Section(warning, chart, visitors, exc) ==
    [warning |-> warning, chart |-> chart, visitors |-> visitors, exc |-> exc]

\* Section 3 of render_traffic_analysis. Both empty branches bind
\* cumulative_hourly; the figure reads cumulative_df, which only the last
\* branch binds.
cumulative_visitors(positions_df, selected_zones_cum, dwell_time) ==
    LET rows == zone_positions(positions_df, selected_zones_cum)
        qualified == qualified_macs(rows, dwell_time)
    IN  IF selected_zones_cum = {}
        THEN Section(Some("Please select at least one zone"), None, None, None)
        ELSE IF Len(rows) = 0
        THEN Section(Some("No data found for zones"), None, None,
                     Some("UnboundLocalError"))
        ELSE IF qualified = {}
        THEN Section(None, None, None, Some("UnboundLocalError"))
        ELSE Section(None, Some(cumulative_data(rows, qualified)),
                     Some(Cardinality(qualified)), None)

\* The zones of the multiselect, the devices and the time indices drawn.
CumZones == {"A", "B"}

Macs == {"m1", "m2"}

TimeIndexes == {1, 7, 13}

Positions ==
    SeqUpTo([mac_address : Macs, zone : {"A"}, time_index : TimeIndexes],
            MaxPositions)

NotRun == [selected_zones_cum |-> {}, dwell_time |-> 1, ran |-> FALSE,
           shown |-> Section(None, None, None, None)]

\* The page runs with a selection of zones and a dwell time.
CumulativeVisitors ==
    \E selected_zones_cum \in SUBSET CumZones, dwell_time \in dwell_times :
        /\ ~cumulative.ran
        /\ cumulative' = [cumulative EXCEPT
              !.selected_zones_cum = selected_zones_cum,
              !.dwell_time = dwell_time,
              !.ran = TRUE,
              !.shown = cumulative_visitors(cumulative.positions_df,
                                            selected_zones_cum, dwell_time)]
        /\ UNCHANGED <<journey_vars, playback, session_state>>

\* The page is run again.
RerunCumulative ==
    /\ cumulative.ran
    /\ cumulative' = [cumulative EXCEPT !.ran = FALSE,
                                        !.shown = Section(None, None, None, None)]
    /\ UNCHANGED <<journey_vars, playback, session_state>>

\* -------------------------------------------------------- the password gate

\* The radio of the sidebar; its first option is the default.
menu_options == <<"Traffic Analysis", "Localization", "Heatmap Analysis",
                  "Spatial Flow", "Flow Prediction">>

\* The on_change callback of the text input; s.password holds the new value.
password_entered(s) ==
    IF s.password = s.secret
    THEN [s EXCEPT !.password_correct = Some(TRUE), !.password = None]
    ELSE [s EXCEPT !.password_correct = Some(FALSE)]

\* Mutant of check_password: a wrong password is let through.
check_password_without_error_branch(s) ==
    IF s.password_correct = None
    THEN [s EXCEPT !.view = "info",
                   !.password = IF s.password = None THEN Some("") ELSE s.password]
    ELSE [s EXCEPT !.view = "dashboard"]

\* check_password and the st.stop() under it: the view is what the run
\* showed. A text input drawn with key "password" holds its value ("" at
\* first) in st.session_state.
check_password(s) ==
    IF s.password_correct = None
    THEN [s EXCEPT !.view = "info",
                   !.password = IF s.password = None THEN Some("") ELSE s.password]
    ELSE IF ~s.password_correct[1]
    THEN [s EXCEPT !.view = "error",
                   !.password = IF s.password = None THEN Some("") ELSE s.password]
    ELSE [s EXCEPT !.view = "dashboard"]

\* One run of the script: the gate, then main() routes the selected menu.
script_run(s) ==
    LET t == check_password(s)
    IN  IF t.view = "dashboard" THEN [t EXCEPT !.page = Some(t.menu)]
        ELSE [t EXCEPT !.page = None]

\* The secrets and the entries drawn.
Secrets == {"s3cret", "pw"}

Entries == Secrets \cup {"", "guess", "admin"}

\* A session before its first run: st.session_state is empty.
NewSession(secret) ==
    [secret |-> Some(secret), password_correct |-> None, password |-> None,
     view |-> "none", menu |-> menu_options[1], page |-> None,
     submissions |-> <<>>]

\* The browser opens the app.
OpenSession ==
    /\ session_state.view = "none"
    /\ session_state' = script_run(session_state)
    /\ UNCHANGED <<journey_vars, playback, cumulative>>

\* A password is submitted in the text input: on_change fires for a changed
\* value, then the script runs again.
Submit ==
    \E value \in Entries :
        /\ session_state.view \in {"info", "error"}
        /\ Some(value) # session_state.password
        /\ Len(session_state.submissions) < MaxSubmissions
        /\ session_state' =
              script_run(password_entered(
                  [session_state EXCEPT
                      !.password = Some(value),
                      !.submissions = Append(session_state.submissions, value)]))
        /\ UNCHANGED <<journey_vars, playback, cumulative>>

\* A menu is chosen in the sidebar, which only the dashboard draws.
SelectMenu ==
    \E k \in DOMAIN menu_options :
        /\ session_state.view = "dashboard"
        /\ menu_options[k] # session_state.menu
        /\ session_state' = script_run([session_state EXCEPT !.menu = menu_options[k]])
        /\ UNCHANGED <<journey_vars, playback, cumulative>>

\* The other pages have not run.
DashboardIdle ==
    /\ playback = None
    /\ session_state = None
    /\ cumulative = None

\* ------------------------------------------------------- the specifications

InitResolve ==
    /\ transitions_df \in ContextTables
    /\ call = NoCall
    /\ ret = NoRet
    /\ outflow_sorted = None
    /\ OutsidePage
    /\ NoStatistics
    /\ attempts = 0
    /\ DashboardIdle

NextResolve == Resolve \/ Rerun

SpecResolve == InitResolve /\ [][NextResolve]_vars

\* The same calls of the resolver, for the claims on its attempts, its last
\* step and the values outside its lists.
SpecAttempts == InitResolve /\ [][NextResolve]_vars

NextMalformed == ResolveMalformed \/ Rerun

SpecMalformed == InitResolve /\ [][NextMalformed]_vars

InitListed ==
    /\ transitions_df \in ListedTables
    /\ call = NoCall
    /\ ret = NoRet
    /\ outflow_sorted = None
    /\ OutsidePage
    /\ NoStatistics
    /\ attempts = 0
    /\ DashboardIdle

NextListed == ResolveListed \/ Rerun

SpecListed == InitListed /\ [][NextListed]_vars

InitFlow ==
    /\ transitions_df \in FlowTables
    /\ call = NoCall
    /\ ret = NoRet
    /\ outflow_sorted = None
    /\ OutsidePage
    /\ NoStatistics
    /\ attempts = 0
    /\ DashboardIdle

NextFlow == Outflow \/ Inflow \/ Rank \/ Rerun

SpecFlow == InitFlow /\ [][NextFlow]_vars

NextPlain == PlainFilter \/ PlainOutflow \/ PlainInflow \/ Rerun

SpecPlain == InitFlow /\ [][NextPlain]_vars

InitPlayback ==
    /\ JourneyIdle
    /\ playback \in {NewPlayback(view, frames) :
                        view \in {"loc", "hm"}, frames \in 0 .. MaxFrames}
    /\ session_state = None
    /\ cumulative = None

NextPlayback == Open \/ Press \/ SetSpeed \/ SetRange \/ AutoRerun

SpecPlayback == InitPlayback /\ [][NextPlayback]_vars

InitCumulative ==
    /\ JourneyIdle
    /\ playback = None
    /\ session_state = None
    /\ cumulative \in {[positions_df |-> p] @@ NotRun : p \in Positions}

NextCumulative == CumulativeVisitors \/ RerunCumulative

SpecCumulative == InitCumulative /\ [][NextCumulative]_vars

InitGate ==
    /\ JourneyIdle
    /\ playback = None
    /\ cumulative = None
    /\ session_state \in {NewSession(secret) : secret \in Secrets}

NextGate == OpenSession \/ Submit \/ SelectMenu

SpecGate == InitGate /\ [][NextGate]_vars

InitCache ==
    /\ transitions_df = None
    /\ call = NoCall
    /\ ret = NoRet
    /\ outflow_sorted = None
    /\ cache_file \in CacheFiles
    /\ st_cache = None
    /\ now = 0
    /\ page = StartOfPass
    /\ NoStatistics
    /\ attempts = 0
    /\ DashboardIdle

NextCache ==
    Load \/ CacheNotFound \/ PageResolve \/ PageOutflow \/ PageRerun \/ Tick
    \/ FileChange

SpecCache == InitCache /\ [][NextCache]_vars

InitTraffic ==
    /\ transitions_df \in {Some(t) : t \in LoaderTables}
    /\ call = NoCall
    /\ ret = NoRet
    /\ outflow_sorted = None
    /\ OutsidePage
    /\ zone_stats \in StatsTables
    /\ zone_traffic_df = None
    /\ attempts = 0
    /\ DashboardIdle

NextTraffic == Aggregate \/ RerunTraffic

SpecTraffic == InitTraffic /\ [][NextTraffic]_vars

\* ------------------------------------------------------- claims: vocabulary

\* The rows of the loaded table, none when it is absent.
TableRows == IF transitions_df = None THEN <<>> ELSE transitions_df[1]

\* The rows of the loaded table with the given weekday, weather and time
\* bucket, a None standing for no condition, in table order.
RowsWhere(wd, wt, tb) ==
    SelectSeq(TableRows, LAMBDA r :
        /\ (wd # None => r.weekday = wd[1])
        /\ (wt # None => r.weather = wt[1])
        /\ (tb # None => r.time_bucket = tb[1]))

\* The exact filter of the request of the last call.
ExactRows == RowsWhere(call.weekday, call.weather, call.time_bucket)

Resolved == call.fn = "resolve"

\* The substitutes of the request's weather and time bucket, in preference order.
WeatherCandidates ==
    SelectSeq(<<"Cloudy", "Clear", "Rainy">>,
              LAMBDA w : call.weather = None \/ w # call.weather[1])

TimeCandidates ==
    SelectSeq(<<"afternoon", "morning", "evening">>,
              LAMBDA t : call.time_bucket = None \/ t # call.time_bucket[1])

Range(s) == {s[i] : i \in DOMAIN s}

\* Steps 1 to 4 find nothing for the request of the last call.
NothingUpToStep4 ==
    /\ ExactRows = <<>>
    /\ \A w \in Range(WeatherCandidates) :
          RowsWhere(call.weekday, Some(w), call.time_bucket) = <<>>
    /\ \A t \in Range(TimeCandidates) :
          RowsWhere(call.weekday, call.weather, Some(t)) = <<>>
    /\ \A w \in Range(WeatherCandidates), t \in Range(TimeCandidates) :
          RowsWhere(call.weekday, Some(w), Some(t)) = <<>>

\* ------------------------------------------------------------------ claims

\* C1: on a non-empty table, when the exact filter of the request selects a
\* row, the resolver returns exactly the selected rows, in table order, with
\* notice None; a request without any filter returns the whole table.
C1_ExactMatchWins ==
    (Resolved /\ TableRows # <<>>) =>
        /\ ExactRows # <<>> => ret = Returned(DataFrame(ExactRows), EmptyDict, None)
        /\ (call.weekday = None /\ call.weather = None /\ call.time_bucket = None)
              => (ret.exc = None /\ ret.df.rows = TableRows /\ ret.notice = None)

\* An exact match that leaves rows of the table out, all three filters given.
C1_Witness ==
    /\ Resolved
    /\ call.weekday # None /\ call.weather # None /\ call.time_bucket # None
    /\ ExactRows # <<>>
    /\ Len(ExactRows) < Len(TableRows)
    /\ ret.notice = None

\* C5: with a weekday requested, every row the resolver returns has that
\* weekday, whichever step found the slice.
C5_WeekdayInvariance ==
    (Resolved /\ call.weekday # None) =>
        \A i \in DOMAIN ret.df.rows : ret.df.rows[i].weekday = call.weekday[1]

\* A slice found by the weekday-only relaxation, the last step, from a table
\* that holds rows of another weekday too.
C5_Witness ==
    /\ Resolved
    /\ call.weekday # None
    /\ ret.df.rows # <<>>
    /\ ret.notice = weekday_only_msg(weekday_names[call.weekday[1] + 1])
    /\ \E i \in DOMAIN TableRows : TableRows[i].weekday # call.weekday[1]

\* C6: when the exact filter is empty and a weather was requested, the first
\* weather of Cloudy, Clear, Rainy, the requested one left out, that has rows
\* for the requested weekday and time bucket is substituted: exactly its rows
\* are returned and the notice names the requested and the substituted weather.
C6_WeatherSubstitution ==
    (Resolved /\ TableRows # <<>> /\ call.weather # None /\ ExactRows = <<>>) =>
        \A i \in DOMAIN WeatherCandidates :
            ( /\ RowsWhere(call.weekday, Some(WeatherCandidates[i]),
                           call.time_bucket) # <<>>
              /\ \A j \in 1..(i - 1) :
                    RowsWhere(call.weekday, Some(WeatherCandidates[j]),
                              call.time_bucket) = <<>> )
            => /\ ret.exc = None
               /\ ret.df = DataFrame(RowsWhere(call.weekday,
                                               Some(WeatherCandidates[i]),
                                               call.time_bucket))
               /\ ret.notice # None
               /\ Len(ret.notice[1]) = 5
               /\ ret.notice[1][2] = weather_names_kr(call.weather[1])
               /\ ret.notice[1][4] = weather_names_kr(WeatherCandidates[i])

\* Rainy requested, Clear substituted although the table has Cloudy rows too
\* (of another time bucket): the second candidate is the first with rows.
C6_Witness ==
    /\ Resolved
    /\ call.weather = Some("Rainy") /\ call.weekday # None /\ call.time_bucket # None
    /\ ExactRows = <<>>
    /\ \E i \in DOMAIN TableRows : TableRows[i].weather = "Cloudy"
    /\ ret.df.rows # <<>>
    /\ \A i \in DOMAIN ret.df.rows : ret.df.rows[i].weather = "Clear"
    /\ ret.notice # None /\ ret.notice[1][2] = "bi" /\ ret.notice[1][4] = "malgeum"

\* C7: on a non-empty table without a row of the requested weekday the
\* resolver returns an empty slice with the terminal no-data notice; so it
\* does when no weekday is requested and steps 1 to 4 find nothing.
C7_TerminalNotice ==
    (Resolved /\ TableRows # <<>>) =>
        /\ (call.weekday # None /\ RowsWhere(call.weekday, None, None) = <<>>)
              => (ret.exc = None /\ ret.df.rows = <<>> /\ ret.notice = no_data_msg)
        /\ (call.weekday = None /\ NothingUpToStep4)
              => (ret.exc = None /\ ret.df.rows = <<>> /\ ret.notice = no_data_msg)

\* No weekday requested, steps 1 to 4 exhausted on a table that has rows.
C7_Witness ==
    /\ Resolved
    /\ TableRows # <<>>
    /\ call.weekday = None
    /\ NothingUpToStep4
    /\ ret.df.rows = <<>>
    /\ ret.notice = no_data_msg

\* C8: for an absent or empty table the resolver returns an empty slice with
\* notice None; an empty slice with notice None is returned for such a table
\* only, and the terminal notice for a non-empty table only.
C8_AbsentTable ==
    Resolved =>
        /\ TableRows = <<>> => ret = Returned(EmptyDataFrame, EmptyDict, None)
        /\ (ret.exc = None /\ ret.df.rows = <<>> /\ ret.notice = None)
              => TableRows = <<>>
        /\ ret.notice = no_data_msg => TableRows # <<>>

\* A table that is loaded but has no rows, asked with all three filters.
C8_Witness ==
    /\ Resolved
    /\ transitions_df = Some(<<>>)
    /\ call.weekday # None /\ call.weather # None /\ call.time_bucket # None
    /\ ret = Returned(EmptyDataFrame, EmptyDict, None)

\* ------------------------------------------------- claims: flow vocabulary

Flowed == call.fn \in {"outflow", "inflow"}

\* What the resolver returns for the table and the context of the last call.
ResolverResult ==
    get_filtered_transitions_with_fallback(transitions_df, call.weekday,
                                           call.weather, call.time_bucket)

\* The sum of the counts of the rows of a sequence at the indexes I.
RECURSIVE SumCounts(_, _)
SumCounts(rows, I) ==
    IF I = {} THEN 0
    ELSE LET i == CHOOSE j \in I : TRUE
         IN  rows[i].count + SumCounts(rows, I \ {i})

\* The sum of the numerators of a distribution over the keys K.
RECURSIVE SumNumerators(_, _)
SumNumerators(probs, K) ==
    IF K = {} THEN 0
    ELSE LET k == CHOOSE j \in K : TRUE
         IN  probs[k][1] + SumNumerators(probs, K \ {k})

\* The table with the from_zone and to_zone columns exchanged.
Mirror(df) ==
    IF df = None THEN None
    ELSE Some([i \in DOMAIN df[1] |->
                 [df[1][i] EXCEPT !.from_zone = df[1][i].to_zone,
                                  !.to_zone = df[1][i].from_zone]])

\* C2 (as claimed): whenever the resolver yields an empty slice, zone_outflow
\* and zone_inflow return, without raising, an empty distribution together
\* with the resolver's notice.
C2_TotalOnEmptySlice ==
    (Flowed /\ ResolverResult.exc = None /\ ResolverResult.df.rows = <<>>) =>
        /\ ret.exc = None
        /\ ret.probs = EmptyDict
        /\ ret.notice = ResolverResult.notice

\* C3 (as claimed): every non-empty distribution returned has its
\* probabilities in [0, 1], over a strictly positive total, summing to 1.
C3_Normalization ==
    (Flowed /\ ret.exc = None /\ ret.probs # EmptyDict) =>
        /\ \A k \in DOMAIN ret.probs :
              /\ ret.probs[k][2] > 0
              /\ 0 <= ret.probs[k][1]
              /\ ret.probs[k][1] <= ret.probs[k][2]
        /\ \A k \in DOMAIN ret.probs :
              SumNumerators(ret.probs, DOMAIN ret.probs) = ret.probs[k][2]

\* C4: when the resolved slice has a row leaving the zone, zone_outflow
\* returns the distribution whose keys are the to_zone values of the zone's
\* rows and whose value at a key is the sum of the counts of the zone's rows
\* to that key, over all contexts of the slice, divided by the sum of the
\* counts of all the zone's rows.
C4_OutflowDistribution ==
    (call.fn = "outflow" /\ ResolverResult.exc = None) =>
        LET R == ResolverResult.df.rows
            Z == {i \in DOMAIN R : R[i].from_zone = call.zone}
        IN  Z # {} =>
              /\ ret.exc = None
              /\ DOMAIN ret.probs = {R[i].to_zone : i \in Z}
              /\ \A k \in DOMAIN ret.probs :
                    ret.probs[k] = <<SumCounts(R, {i \in Z : R[i].to_zone = k}),
                                     SumCounts(R, Z)>>

\* Two destinations with different positive counts, the rows taken from two
\* weathers of a slice resolved without a weather filter.
C4_Witness ==
    /\ call.fn = "outflow"
    /\ call.weather = None
    /\ ret.exc = None
    /\ \E a, b \in DOMAIN ret.probs :
          /\ a # b
          /\ ret.probs[a] = <<2, 3>>
          /\ ret.probs[b] = <<1, 3>>
    /\ \E i, j \in DOMAIN TableRows :
          /\ TableRows[i].from_zone = call.zone
          /\ TableRows[j].from_zone = call.zone
          /\ TableRows[i].weather # TableRows[j].weather

\* C9 (as claimed): the notice zone_outflow / zone_inflow return is the
\* resolver's for the same table and context, for every table, zone and
\* context; a slice without a row of the zone gives the empty distribution
\* with that notice.
C9_NoticePropagated ==
    (Flowed /\ ResolverResult.exc = None) =>
        /\ ret.exc = None
        /\ ret.notice = ResolverResult.notice
        /\ LET R == ResolverResult.df.rows
           IN  (\A i \in DOMAIN R :
                   IF call.fn = "outflow" THEN R[i].from_zone # call.zone
                   ELSE R[i].to_zone # call.zone)
               => ret.probs = EmptyDict

\* C10: zone_inflow on a table is zone_outflow on the table with from_zone
\* and to_zone exchanged, and the other way round: same distribution, same
\* notice, same exception if any.
C10_InflowMirrorsOutflow ==
    /\ call.fn = "inflow" =>
          ret = get_zone_outflow_with_fallback(call.zone, Mirror(transitions_df),
                                               call.weekday, call.weather,
                                               call.time_bucket)
    /\ call.fn = "outflow" =>
          ret = get_zone_inflow_with_fallback(call.zone, Mirror(transitions_df),
                                              call.weekday, call.weather,
                                              call.time_bucket)

\* An inflow with two sources of different weight, on a table whose mirror
\* image is another table.
C10_Witness ==
    /\ call.fn = "inflow"
    /\ ret.exc = None
    /\ Cardinality(DOMAIN ret.probs) = 2
    /\ \E a, b \in DOMAIN ret.probs : ret.probs[a][1] < ret.probs[b][1]
    /\ Mirror(transitions_df) # transitions_df

\* ----------------------------------------------- claims: ranking vocabulary

\* The ranking made by the page, empty before it is made.
Ranking == IF outflow_sorted = None THEN <<>> ELSE outflow_sorted[1]

\* The index of the first row of the table that links the queried zone and
\* zone z in the direction of the last call, 0 when there is none.
FirstRowOf(z) ==
    LET I == {i \in DOMAIN TableRows :
                IF call.fn = "outflow"
                THEN TableRows[i].from_zone = call.zone /\ TableRows[i].to_zone = z
                ELSE TableRows[i].to_zone = call.zone /\ TableRows[i].from_zone = z}
    IN  IF I = {} THEN 0 ELSE CHOOSE i \in I : \A j \in I : i <= j

\* Two ranked items have the same probability (a number, not NaN).
Tied(x, y) == x[2][2] > 0 /\ y[2][2] > 0 /\ x[2][1] * y[2][2] = y[2][1] * x[2][2]

\* Zone name a sorts before zone name b.
NameBefore(a, b) == a = "A" /\ b = "B"

C12_MalformedWeekday ==
    (/\ call.fn = "resolve"
     /\ call.weekday # None
     /\ call.weekday[1] \notin 0..6
     /\ TableRows # <<>>
     /\ \A i \in DOMAIN TableRows : TableRows[i].weekday \in 0..6)
        => /\ RowsWhere(call.weekday, None, None) = <<>>
           /\ ret = Returned(EmptyDataFrame, EmptyDict, no_data_msg)

\* A request for weekday -1 or 7 and a weather on a table of two rows was
\* answered with the terminal notice.
C12_Witness ==
    /\ call.fn = "resolve"
    /\ call.weekday \in {Some(-1), Some(7)}
    /\ call.weather = Some("Rainy")
    /\ Len(TableRows) = 2
    /\ ret.exc = None
    /\ ret.notice = no_data_msg

\* ------------------------------------------- claims: time and joint fallback

\* Some weather substitute of step 2 has rows for the request of the last call.
WeatherSubstituteHits ==
    \E w \in Range(WeatherCandidates) :
        RowsWhere(call.weekday, Some(w), call.time_bucket) # <<>>

\* Some time bucket substitute of step 3 has rows for the request.
TimeSubstituteHits ==
    \E t \in Range(TimeCandidates) :
        RowsWhere(call.weekday, call.weather, Some(t)) # <<>>

\* The rows of the i-th weather substitute and the j-th time bucket substitute.
PairRows(i, j) ==
    RowsWhere(call.weekday, Some(WeatherCandidates[i]), Some(TimeCandidates[j]))

\* The labels of the requested weather and time bucket, an absent one left out.
RequestedLabels ==
    (IF call.weather = None THEN <<>> ELSE <<weather_names_kr(call.weather[1])>>)
    \o (IF call.time_bucket = None THEN <<>>
        ELSE <<time_names_kr(call.time_bucket[1])>>)

\* C19: a time bucket substitute is used only when the exact filter and every
\* weather substitute of step 2 are empty; then, weekday and requested weather
\* held fixed, the first time bucket of afternoon, morning, evening, the
\* requested one left out, that has rows is substituted: exactly its rows are
\* returned and the notice names the requested and the substituted time bucket.
\* When the exact filter or a weather substitute has rows, the rows returned
\* all have the requested time bucket.
C19_TimeSubstitution ==
    (Resolved /\ TableRows # <<>> /\ call.time_bucket # None) =>
        /\ (ExactRows = <<>> /\ ~WeatherSubstituteHits) =>
              \A i \in DOMAIN TimeCandidates :
                  ( /\ RowsWhere(call.weekday, call.weather,
                                 Some(TimeCandidates[i])) # <<>>
                    /\ \A j \in 1..(i - 1) :
                          RowsWhere(call.weekday, call.weather,
                                    Some(TimeCandidates[j])) = <<>> )
                  => /\ ret.exc = None
                     /\ ret.df = DataFrame(RowsWhere(call.weekday, call.weather,
                                                     Some(TimeCandidates[i])))
                     /\ ret.notice # None
                     /\ Len(ret.notice[1]) = 5
                     /\ ret.notice[1][2] = time_names_kr(call.time_bucket[1])
                     /\ ret.notice[1][4] = time_names_kr(TimeCandidates[i])
        /\ (ExactRows # <<>> \/ WeatherSubstituteHits) =>
              /\ ret.exc = None
              /\ ret.df.rows # <<>>
              /\ \A i \in DOMAIN ret.df.rows :
                    ret.df.rows[i].time_bucket = call.time_bucket[1]

\* The morning requested, the afternoon substituted although the table has an
\* evening row of the requested weekday and weather too, standing first.
C19_Witness ==
    /\ Resolved
    /\ call.time_bucket = Some("morning") /\ call.weather # None
    /\ call.weekday # None
    /\ Len(TableRows) = 2
    /\ TableRows[1].time_bucket = "evening"
    /\ TableRows[1].weather = call.weather[1]
    /\ TableRows[1].weekday = call.weekday[1]
    /\ ret.df.rows = <<TableRows[2]>>
    /\ TableRows[2].time_bucket = "afternoon"
    /\ ret.notice # None /\ ret.notice[1][2] = "ojeon" /\ ret.notice[1][4] = "ohu"

\* C20: the joint substitution is used only when the exact filter, every
\* weather substitute and every time bucket substitute are empty; then the
\* pairs of a weather substitute and a time bucket substitute are tried with
\* the weather as the outer loop and the time bucket as the inner one, weekday
\* held fixed, and the rows of the first pair that has rows are returned, with
\* a notice naming the weekday, the requested pair and the substituted pair.
C20_JointSubstitution ==
    (Resolved /\ TableRows # <<>>) =>
        /\ (ExactRows = <<>> /\ ~WeatherSubstituteHits /\ ~TimeSubstituteHits) =>
              \A i \in DOMAIN WeatherCandidates, j \in DOMAIN TimeCandidates :
                  ( /\ PairRows(i, j) # <<>>
                    /\ \A k \in DOMAIN WeatherCandidates, l \in DOMAIN TimeCandidates :
                          (k < i \/ (k = i /\ l < j)) => PairRows(k, l) = <<>> )
                  => /\ ret.exc = None
                     /\ ret.df = DataFrame(PairRows(i, j))
                     /\ ret.notice # None
                     /\ Len(ret.notice[1]) = 6
                     /\ ret.notice[1][2] = (IF call.weekday = None THEN "jeonche"
                                            ELSE weekday_names[call.weekday[1] + 1])
                     /\ ret.notice[1][3] = RequestedLabels
                     /\ ret.notice[1][5] = <<weather_names_kr(WeatherCandidates[i]),
                                             time_names_kr(TimeCandidates[j])>>
        /\ (ret.exc = None /\ ret.notice # None /\ Len(ret.notice[1]) = 6) =>
              (ExactRows = <<>> /\ ~WeatherSubstituteHits /\ ~TimeSubstituteHits)

\* Rainy morning requested; the table has a Clear afternoon row and a Cloudy
\* evening row of the weekday: Cloudy, first in the outer loop, wins with the
\* evening, although the afternoon is first in the inner loop.
C20_Witness ==
    /\ Resolved
    /\ call.weather = Some("Rainy") /\ call.time_bucket = Some("morning")
    /\ call.weekday = Some(2)
    /\ Len(TableRows) = 2
    /\ TableRows[1].weather = "Clear" /\ TableRows[1].time_bucket = "afternoon"
    /\ TableRows[1].weekday = 2
    /\ ret.df.rows = <<TableRows[2]>>
    /\ TableRows[2].weather = "Cloudy" /\ TableRows[2].time_bucket = "evening"
    /\ ret.notice # None
    /\ ret.notice[1] = <<"Fallback", "suyoil", <<"bi", "ojeon">>, "deiteoga eopseo",
                         <<"heurim", "jeonyeok">>, "deiteoreul sayong">>

\* --------------------------------------------------- claims: the cached load

\* The step is a call of load_zone_transitions by a page.
LoadStep == page.pc = "start" /\ page'.pc = "loaded"

\* The seconds since the entry of st.cache_data was stored.
EntryAge == now - st_cache[1].stored_at

\* C15: a call of the load function less than one hour (3600 s) after the
\* load that stored the entry returns the stored snapshot without reading
\* the file and leaves the entry as it is; a call more than one hour after
\* it reads the file, returns what the file then holds and stores that; and
\* no step of a page other than a load changes the entry.
C15_CacheTtl ==
    [][ /\ (LoadStep /\ st_cache # None /\ EntryAge < 3600) =>
              /\ transitions_df' = st_cache[1].value
              /\ ~page'.read
              /\ st_cache' = st_cache
        /\ (LoadStep /\ st_cache # None /\ EntryAge > 3600) =>
              /\ page'.read
              /\ transitions_df' = cache_file
              /\ st_cache' = Some([value |-> cache_file, stored_at |-> now])
        /\ ~LoadStep => st_cache' = st_cache
      ]_vars

\* A page was answered from an entry forty minutes old with a table, and has
\* made its call on it.
C15_Witness ==
    /\ page.pc = "called"
    /\ ~page.read
    /\ st_cache # None
    /\ EntryAge = 2 * ClockStep
    /\ st_cache[1].value # None
    /\ ret.exc = None

\* C16 (as claimed): every load returns the contents of the backing file as
\* it is at the time of the load (absent when there is no file), a change
\* of the file having discarded the cached table.
C16_FileChangeDiscards == [][LoadStep => transitions_df' = cache_file]_vars

\* C17: a load that runs when there is no backing file returns None; a page
\* holding None shows the cache-not-found error and returns without a call;
\* and every call of the resolver or of the outflow function is made on a
\* table.
C17_MissingArtifact ==
    [][ /\ (LoadStep /\ page'.read /\ cache_file = None) => transitions_df' = None
        /\ (page.pc = "loaded" /\ transitions_df = None /\ page' # page) =>
              /\ page'.pc = "returned"
              /\ page'.error # None
              /\ page'.error[1][1] = "Cache not found"
              /\ call' = NoCall
        /\ (call' # call /\ call' # NoCall) => transitions_df # None
      ]_vars

\* After an hour and more, a load found no file, and the page has shown the
\* error and returned without a call.
C17_Witness ==
    /\ page.pc = "returned"
    /\ page.read
    /\ page.error # None
    /\ st_cache # None
    /\ st_cache[1].value = None
    /\ st_cache[1].stored_at > 3600
    /\ call = NoCall

\* -------------------------------------------------- claims: the traffic table

\* The value of a field of a zone's statistics, 0 when the field is missing.
FieldOr0(field) == IF field = None THEN 0 ELSE field[1]

\* The total traffic of the i-th zone of the statistics.
TotalOf(stats, i) ==
    FieldOr0(stats[i][2].total_outflow) + FieldOr0(stats[i][2].total_inflow)

\* The table lists zones of the statistics, each once, each with its own
\* sums, in non-increasing order of Total, at most 15 of them, and no zone
\* left out has a larger Total than a zone listed.
TrafficOf(stats, table) ==
    /\ Len(table) = (IF Len(stats) < 15 THEN Len(stats) ELSE 15)
    /\ \A k \in DOMAIN table :
          \E i \in DOMAIN stats :
              /\ stats[i][1] = table[k].Zone
              /\ table[k].Outflow = FieldOr0(stats[i][2].total_outflow)
              /\ table[k].Inflow = FieldOr0(stats[i][2].total_inflow)
              /\ table[k].Total = TotalOf(stats, i)
              /\ table[k].Balance = FieldOr0(stats[i][2].total_outflow)
                                    - FieldOr0(stats[i][2].total_inflow)
    /\ \A k, l \in DOMAIN table : k < l =>
          /\ table[k].Zone # table[l].Zone
          /\ table[k].Total >= table[l].Total
    /\ \A i \in DOMAIN stats :
          (\A k \in DOMAIN table : table[k].Zone # stats[i][1]) =>
              \A k \in DOMAIN table : table[k].Total >= TotalOf(stats, i)

\* C18: the traffic table the view makes has, for each zone it lists,
\* Total = total_outflow + total_inflow and Balance = total_outflow -
\* total_inflow, a missing field counting 0; it lists the zones in
\* non-increasing order of Total and keeps the first 15 at most; and making it
\* leaves the statistics as they were.
C18_ZoneTraffic ==
    [][ (zone_traffic_df = None /\ zone_traffic_df' # None) =>
            /\ TrafficOf(zone_stats[1], zone_traffic_df'[1])
            /\ zone_stats' = zone_stats
      ]_vars

\* Sixteen zones, the last without total_inflow, the first without
\* total_outflow: fifteen are listed, the last zone among them with inflow 0
\* and a positive balance, two of equal Total side by side, and the zone left
\* out is the first, whose Total is the least.
C18_Witness ==
    /\ zone_traffic_df # None
    /\ Len(zone_stats[1]) = 16
    /\ zone_stats[1][16][2].total_inflow = None
    /\ zone_stats[1][1][2].total_outflow = None
    /\ Len(zone_traffic_df[1]) = 15
    /\ zone_traffic_df[1][2].Total = zone_traffic_df[1][3].Total
    /\ \E k \in DOMAIN zone_traffic_df[1] :
          /\ zone_traffic_df[1][k].Zone = 16
          /\ zone_traffic_df[1][k].Inflow = 0
          /\ zone_traffic_df[1][k].Balance > 0
    /\ \A k \in DOMAIN zone_traffic_df[1] : zone_traffic_df[1][k].Zone # 1

\* ------------------------------------------ claims: the weekday-only step

\* C21: when steps 1 to 4 find nothing, a weekday was requested and the table
\* has a row of that weekday, the resolver returns all the rows of that
\* weekday, whatever their weather and time bucket, in table order, with the
\* notice of the final relaxation naming the weekday; and with a weekday
\* requested on a non-empty table the slice returned is non-empty exactly when
\* the table has a row of that weekday.
C21_WeekdayOnly ==
    (Resolved /\ TableRows # <<>> /\ call.weekday # None) =>
        /\ (NothingUpToStep4 /\ RowsWhere(call.weekday, None, None) # <<>>) =>
              /\ ret.exc = None
              /\ ret.df = DataFrame(RowsWhere(call.weekday, None, None))
              /\ ret.notice # None
              /\ Len(ret.notice[1]) = 4
              /\ ret.notice[1][2] = "jeonghwakhan maengnak deiteoga eopseo"
              /\ ret.notice[1][3] = weekday_names[call.weekday[1] + 1]
        /\ ret.exc = None
        /\ (ret.df.rows # <<>>) <=> (RowsWhere(call.weekday, None, None) # <<>>)

\* Steps 1 to 4 found nothing for a weekday, a weather and a time bucket; the
\* two rows of the weekday, of different weathers, are returned together.
C21_Witness ==
    /\ Resolved
    /\ call.weekday # None /\ call.weather # None /\ call.time_bucket # None
    /\ NothingUpToStep4
    /\ Len(ret.df.rows) = 2
    /\ ret.df.rows[1].weather # ret.df.rows[2].weather
    /\ ret.notice # None
    /\ Len(ret.notice[1]) = 4

\* ------------------------------------------------ claims: the search bound

\* C22 (as claimed): one call of the resolver makes at most 15 calls of
\* try_filter, whatever the table and the request.
C22_AtMost15Attempts == Resolved => attempts <= 15

\* C22 (amended): one call of the resolver makes at most 17 calls of
\* try_filter (1 exact, 3 weather, 3 time bucket, 3 x 3 joint, 1 weekday-only;
\* a loop keeps its three candidates when its dimension is not requested),
\* and at most 10 (1 + 2 + 2 + 2 x 2 + 1) when the weather and the time bucket
\* are both requested from the preference lists; and then it has returned.
C22_AtMost17Attempts ==
    Resolved =>
        /\ attempts <= 17
        /\ (/\ call.weather # None /\ call.weather[1] \in {"Cloudy", "Clear", "Rainy"}
            /\ call.time_bucket # None
            /\ call.time_bucket[1] \in {"afternoon", "morning", "evening"})
              => attempts <= 10
        /\ (ret.exc = None /\ ret.df.rows # <<>> /\ ret.notice = None) => attempts = 1
        /\ TableRows # <<>> => attempts >= 1

\* A weekday without rows, no weather and no time bucket requested: all 17.
C22_Witness ==
    /\ Resolved
    /\ call.weekday # None /\ call.weather = None /\ call.time_bucket = None
    /\ TableRows # <<>>
    /\ ret.notice = no_data_msg
    /\ attempts = 17

\* ------------------------------------------- claims: same-zone transitions

\* C23: the distribution an outflow or inflow call returns never has the
\* queried zone itself as a key, even when the table holds rows from a zone
\* to itself.
C23_NoSameZoneKey ==
    (Flowed /\ ret.exc = None) => call.zone \notin DOMAIN ret.probs

\* ---------------------------------------------- claims: unknown context values

\* The last call was answered by one of the steps 2 to 4 (their notices have
\* five and six parts).
SubstitutionReturned ==
    /\ Resolved
    /\ ret.exc = None
    /\ ret.notice # None
    /\ Len(ret.notice[1]) \in {5, 6}

\* C24 (as claimed): the steps 2 to 4 return only rows whose weather is one of
\* Cloudy, Clear, Rainy or the requested weather, and whose time bucket is
\* one of afternoon, morning, evening or the requested time bucket.
C24_OnlyListedOrRequested ==
    SubstitutionReturned =>
        \A i \in DOMAIN ret.df.rows :
            /\ \/ ret.df.rows[i].weather \in {"Cloudy", "Clear", "Rainy"}
               \/ call.weather = Some(ret.df.rows[i].weather)
            /\ \/ ret.df.rows[i].time_bucket \in {"afternoon", "morning", "evening"}
               \/ call.time_bucket = Some(ret.df.rows[i].time_bucket)

\* C24 (amended): a requested weather or time bucket outside the preference
\* lists is served by the exact match when the table has rows for it; the
\* steps 2 to 4 return only rows whose weather is one of Cloudy, Clear, Rainy
\* or the requested weather, and whose time bucket is one of afternoon,
\* morning, evening or the requested time bucket; a dimension that was not
\* requested is not filtered by the step that substitutes the other one, and
\* rows of any value of it are returned.
C24_UnknownValuesTolerated ==
    /\ (Resolved /\ TableRows # <<>> /\ ExactRows # <<>>) =>
          (ret.exc = None /\ ret.df = DataFrame(ExactRows) /\ ret.notice = None)
    /\ SubstitutionReturned =>
          \A i \in DOMAIN ret.df.rows :
              /\ \/ ret.df.rows[i].weather \in {"Cloudy", "Clear", "Rainy"}
                 \/ call.weather = Some(ret.df.rows[i].weather)
                 \/ call.weather = None
              /\ \/ ret.df.rows[i].time_bucket \in {"afternoon", "morning", "evening"}
                 \/ call.time_bucket = Some(ret.df.rows[i].time_bucket)
                 \/ call.time_bucket = None

\* Rainy requested with no time bucket; a Cloudy row of the night is returned
\* by the weather substitution.
C24_Witness ==
    /\ SubstitutionReturned
    /\ call.weather = Some("Rainy")
    /\ call.time_bucket = None
    /\ Len(ret.notice[1]) = 5
    /\ \E i \in DOMAIN ret.df.rows :
          ret.df.rows[i].time_bucket = "night" /\ ret.df.rows[i].weather = "Cloudy"

\* ------------------------------------- claims: tables of listed values only

\* Every weather and time bucket of the table, and every one requested, is
\* of the preference lists.
ListedValuesOnly ==
    /\ \A i \in DOMAIN TableRows :
          /\ TableRows[i].weather \in {"Cloudy", "Clear", "Rainy"}
          /\ TableRows[i].time_bucket \in {"afternoon", "morning", "evening"}
    /\ call.weather # None => call.weather[1] \in {"Cloudy", "Clear", "Rainy"}
    /\ call.time_bucket # None =>
          call.time_bucket[1] \in {"afternoon", "morning", "evening"}

\* C29: on a table of listed weathers and time buckets, for a request of
\* listed values, the weekday-only step never answers: when the table has a
\* row of the requested weekday (any row when none is requested), one of the
\* steps 1 to 4 returns a non-empty slice; so the rows returned all have one
\* weather when a weather was requested and one time bucket when a time bucket
\* was requested.
C29_WeekdayOnlyNeverFires ==
    (Resolved /\ TableRows # <<>> /\ ListedValuesOnly) =>
        /\ ret.exc = None
        /\ ~(ret.notice # None /\ Len(ret.notice[1]) = 4)
        /\ RowsWhere(call.weekday, None, None) # <<>> =>
              /\ ret.df.rows # <<>>
              /\ ~NothingUpToStep4
        /\ call.weather # None =>
              \A i, j \in DOMAIN ret.df.rows :
                  ret.df.rows[i].weather = ret.df.rows[j].weather
        /\ call.time_bucket # None =>
              \A i, j \in DOMAIN ret.df.rows :
                  ret.df.rows[i].time_bucket = ret.df.rows[j].time_bucket

\* Rainy morning requested on a table of a Cloudy afternoon row and a Clear
\* evening row of the weekday: the joint step answers with one of them.
C29_Witness ==
    /\ Resolved
    /\ ListedValuesOnly
    /\ call.weekday # None
    /\ call.weather = Some("Rainy") /\ call.time_bucket = Some("morning")
    /\ Len(RowsWhere(call.weekday, None, None)) = 2
    /\ TableRows[1].weather # TableRows[2].weather
    /\ TableRows[1].time_bucket # TableRows[2].time_bucket
    /\ Len(ret.df.rows) = 1
    /\ ret.notice # None /\ Len(ret.notice[1]) = 6

\* ------------------------------------------------ claims: the plain variants

\* C30: on a non-empty table, for a context whose exact filter selects a row,
\* get_filtered_transitions returns the rows the resolver returns, and
\* get_zone_outflow_probabilities and get_zone_inflow_sources the
\* distributions the outflow and the inflow function with fallback return,
\* the latter three with notice None.
C30_FallbackRefinesPlain ==
    (TableRows # <<>> /\ ExactRows # <<>>) =>
        /\ call.fn = "plain_filter" =>
              /\ ret.df = DataFrame(ExactRows)
              /\ ret.df = ResolverResult.df
              /\ ResolverResult.notice = None
        /\ call.fn = "plain_outflow" =>
              /\ ret = get_zone_outflow_with_fallback(call.zone, transitions_df,
                          call.weekday, call.weather, call.time_bucket)
              /\ ret.notice = None
        /\ call.fn = "plain_inflow" =>
              /\ ret = get_zone_inflow_with_fallback(call.zone, transitions_df,
                          call.weekday, call.weather, call.time_bucket)
              /\ ret.notice = None

\* The plain outflow of a zone under a weather that selects one of the two
\* rows of the table: a distribution of one key.
C30_Witness ==
    /\ call.fn = "plain_outflow"
    /\ call.weather # None
    /\ Len(TableRows) = 2
    /\ Len(ExactRows) = 1
    /\ ret.exc = None
    /\ Cardinality(DOMAIN ret.probs) = 1
    /\ \E z \in DOMAIN ret.probs : ret.probs[z][2] > 0

\* ------------------------------------------------------ claims: the playback

\* A run of a playback page that got as far as the progress bar: the range is
\* not inverted and holds a frame.
DrewFrame ==
    /\ playback.opened
    /\ ~playback.inverted
    /\ playback.frames > 0

\* C25: after every run that draws a frame, whatever controls preceded it, the
\* stored frame index lies in 0 .. frames - 1 and the progress bar is given a
\* fraction in [0, 1], so it does not raise.
C25_IndexInRange ==
    DrewFrame =>
        /\ playback.current_idx \in 0 .. playback.frames - 1
        /\ playback.exc = None
        /\ playback.progress # None
        /\ playback.progress[1][1] <= playback.progress[1][2]

\* C26: in the Localization playback every run started by st.rerun() before
\* the last frame is reached moves the frame index strictly forward, at every
\* speed.
C26_AutoRerunAdvances ==
    [][(/\ playback.view = "loc"
        /\ playback'.last = "auto"
        /\ playback.current_idx < playback.frames - 1)
       => playback'.current_idx > playback.current_idx]_vars

\* ---------------------------------------- claims: the cumulative visitors

\* The selected zones have no position row, or no device of theirs meets the
\* minimum dwell time.
NoQualifiedVisitor ==
    LET rows == zone_positions(cumulative.positions_df, cumulative.selected_zones_cum)
    IN  \/ Len(rows) = 0
        \/ qualified_macs(rows, cumulative.dwell_time) = {}

\* C27: for every non-empty selection of zones and every dwell time the
\* section runs to its end without an exception; with no qualified visitor
\* it shows 0 qualified visitors.
C27_RendersWithoutError ==
    (cumulative.ran /\ cumulative.selected_zones_cum # {}) =>
        /\ cumulative.shown.exc = None
        /\ NoQualifiedVisitor => cumulative.shown.visitors = Some(0)

\* ------------------------------------------------ claims: the password gate

Authenticated == session_state.password_correct = Some(TRUE)

DashboardRendered == session_state.page # None

LastSubmission ==
    IF session_state.submissions = <<>> THEN None
    ELSE Some(session_state.submissions[Len(session_state.submissions)])

\* What holds of a session after each run.
Gate ==
    /\ DashboardRendered =>
          LastSubmission # None /\ LastSubmission = session_state.secret
    /\ (LastSubmission # None /\ LastSubmission # session_state.secret) =>
          ~Authenticated /\ ~DashboardRendered
    /\ (LastSubmission # None /\ LastSubmission = session_state.secret) =>
          Authenticated /\ session_state.password = None

\* C28: over any sequence of submissions a dashboard page is rendered only if
\* the most recent submission equalled the secret; a wrong submission leaves
\* the session unauthenticated; an authenticated session stays authenticated;
\* after a correct submission st.session_state holds no password.
C28_PasswordGate ==
    [][Gate /\ Gate' /\ (Authenticated => Authenticated')]_vars

\* A wrong submission, then the secret, then another page of the dashboard.
C28_Witness ==
    /\ Len(session_state.submissions) = 2
    /\ Some(session_state.submissions[1]) # session_state.secret
    /\ LastSubmission = session_state.secret
    /\ Authenticated
    /\ session_state.password = None
    /\ session_state.page = Some("Flow Prediction")

====
